---------------------------- MODULE Spec2Model ----------------------------
(***************************************************************************)
(* A model of controller-heliospectra (src/main.go): the schedule runner   *)
(* (runConditions / runStuff), the poll loop (main / runMetrics), the      *)
(* device exchange (execCommand, chompAllInts, chompAllStrings) and the    *)
(* value encoding (setMany, minMax, getPower).                             *)
(*                                                                         *)
(* Texts (device responses, commands, error messages) are TLA+ strings,    *)
(* read character by character with SubSeq.  Times are whole seconds.      *)
(***************************************************************************)
EXTENDS Integers, Sequences, FiniteSets, TLC

VARIABLES
    \* configuration (package variables set by init)
    noMetrics, dummy, conditionsPath, multiplier,
    \* control position of the process, the caller of runStuff, the wall clock
    pc, caller, now,
    \* runConditions: the rows the scanner has read, and its locals
    file, idx, lastTime, lastLineSplit, firstRun, theTime, lineSplit, i,
    \* runStuff and runMetrics: their locals and the return value of runStuff
    lightValues, conn, wavelengths, x, err, ret, lightPower,
    \* the device: the chunk last read and the command last written
    datad, command,
    \* observations: the clock at start, the "firstrun" / "sleeping" / "ran"
    \* lines of errLog, whether the count warning of runStuff was logged,
    \* whether Close was invoked on a nil connection, the connections now open,
    \* the measurement written to telegraf
    start, errLog, warned, closedNil, openConns, measurement

cfgVars == <<noMetrics, dummy, conditionsPath, multiplier>>

runVars == <<file, idx, lastTime, lastLineSplit, firstRun, theTime, lineSplit, i>>

rsVars == <<lightValues, conn, wavelengths, x, err, ret, lightPower>>

devVars == <<datad, command>>

obsVars == <<start, errLog, warned, closedNil, openConns, measurement>>

vars == <<cfgVars, pc, caller, now, runVars, rsVars, devVars, obsVars>>

(***************************************************************************)
(* Characters and texts                                                    *)
(***************************************************************************)
Digit == {"0", "1", "2", "3", "4", "5", "6", "7", "8", "9"}

Letter ==
    {"a", "b", "c", "d", "e", "f", "g", "h", "i", "j", "k", "l", "m",
     "n", "o", "p", "q", "r", "s", "t", "u", "v", "w", "x", "y", "z",
     "A", "B", "C", "D", "E", "F", "G", "H", "I", "J", "K", "L", "M",
     "N", "O", "P", "Q", "R", "S", "T", "U", "V", "W", "X", "Y", "Z"}

\* the class \w of the regular expressions
WordChar == Digit \cup Letter \cup {"_"}

\* what strings.TrimSpace strips
WhiteSpace == {" ", "\n", "\t", "\r"}

Ch(s, k) == SubSeq(s, k, k)

Rest(s) == SubSeq(s, 2, Len(s))

RECURSIVE TrimLeft(_)
TrimLeft(s) ==
    IF Len(s) > 0 /\ Ch(s, 1) \in WhiteSpace THEN TrimLeft(Rest(s)) ELSE s

RECURSIVE TrimRight(_)
TrimRight(s) ==
    IF Len(s) > 0 /\ Ch(s, Len(s)) \in WhiteSpace
    THEN TrimRight(SubSeq(s, 1, Len(s) - 1))
    ELSE s

TrimSpace(s) == TrimRight(TrimLeft(s))

\* matchOK.MatchString: the text holds "OK" somewhere
matchOK(s) == \E k \in 1..(Len(s) - 1) : SubSeq(s, k, k + 1) = "OK"

\* the maximal runs of word characters of s, in order; cur is the run being read
RECURSIVE WordRuns(_, _, _)
WordRuns(s, cur, acc) ==
    IF Len(s) = 0
    THEN IF cur = "" THEN acc ELSE Append(acc, cur)
    ELSE IF Ch(s, 1) \in WordChar
         THEN WordRuns(Rest(s), cur \o Ch(s, 1), acc)
         ELSE WordRuns(Rest(s), "", IF cur = "" THEN acc ELSE Append(acc, cur))

\* matchStrings.FindAllString(data, -1), for \b(\w+)\b
matchStrings(data) == WordRuns(data, "", <<>>)

AllDigits(w) == \A k \in 1..Len(w) : Ch(w, k) \in Digit

\* matchInts.FindAllString(data, -1), for \b(\d+)\b: a run of digits between two
\* word boundaries is a maximal run of word characters that holds digits only
matchInts(data) == SelectSeq(matchStrings(data), AllDigits)

DigitVal(c) == CHOOSE d \in 0..9 : ToString(d) = c

RECURSIVE StripZeros(_)
StripZeros(w) ==
    IF Len(w) > 1 /\ Ch(w, 1) = "0" THEN StripZeros(Rest(w)) ELSE w

RECURSIVE Decimal(_, _)
Decimal(w, acc) ==
    IF Len(w) = 0 THEN acc ELSE Decimal(Rest(w), 10 * acc + DigitVal(Ch(w, 1)))

\* the decimal digits of the largest int64, 9223372036854775807
MaxInt64Digits == 19

\* strconv.ParseInt(v, 10, 64) of a digit string: a value, or a range error.
\* Inputs of the model hold at most 9 significant digits or more than 19.
ParseInt(v) ==
    IF Len(StripZeros(v)) > MaxInt64Digits
    THEN [ok |-> FALSE, n |-> 0]
    ELSE [ok |-> TRUE, n |-> Decimal(StripZeros(v), 0)]

(***************************************************************************)
(* fmt.Errorf(format) with no operands: a % starts a verb, and a verb      *)
(* with no operand is written as %!v(MISSING), a lone % as %!(NOVERB).     *)
(***************************************************************************)
FmtFlag == {"#", "0", "+", "-", " "}

RECURSIVE SkipFlags(_)
SkipFlags(f) ==
    IF Len(f) > 0 /\ Ch(f, 1) \in FmtFlag THEN SkipFlags(Rest(f)) ELSE f

RECURSIVE SkipDigits(_)
SkipDigits(f) ==
    IF Len(f) > 0 /\ Ch(f, 1) \in Digit THEN SkipDigits(Rest(f)) ELSE f

\* flags, width, precision
SkipVerbPrefix(f) ==
    LET w == SkipDigits(SkipFlags(f))
    IN  IF Len(w) > 0 /\ Ch(w, 1) = "." THEN SkipDigits(Rest(w)) ELSE w

RECURSIVE Errorf(_)
Errorf(f) ==
    IF Len(f) = 0 THEN ""
    ELSE IF Ch(f, 1) # "%" THEN Ch(f, 1) \o Errorf(Rest(f))
    ELSE LET v == SkipVerbPrefix(Rest(f))
         IN  IF Len(v) = 0 THEN "%!(NOVERB)"
             ELSE IF Ch(v, 1) = "%" THEN "%" \o Errorf(Rest(v))
             ELSE "%!" \o Ch(v, 1) \o "(MISSING)" \o Errorf(Rest(v))

(***************************************************************************)
(* Errors and the device exchange                                          *)
(***************************************************************************)
NoErr == [nil |-> TRUE, msg |-> ""]

Error(m) == [nil |-> FALSE, msg |-> m]

\* what conn.ReadString('>') gives: a read error, or the chunk up to the prompt
ReadErr == [ok |-> FALSE, text |-> ""]

Chunk(t) == [ok |-> TRUE, text |-> t]

\* execCommand, after the write: the read, the success token, the trim
execCommand(rd) ==
    IF ~rd.ok THEN [ret |-> "", err |-> Error("EOF")]
    ELSE IF ~matchOK(rd.text)
         THEN [ret |-> "", err |-> Error(Errorf(TrimSpace(rd.text)))]
         ELSE [ret |-> TrimSpace(rd.text), err |-> NoErr]

\* the integers of tmpStrings[1:], read in order until one fails to parse
RECURSIVE ParseInts(_, _)
ParseInts(toks, acc) ==
    IF toks = <<>> THEN [values |-> acc, err |-> NoErr]
    ELSE LET p == ParseInt(Head(toks))
         IN  IF ~p.ok THEN [values |-> acc, err |-> Error("value out of range")]
             ELSE ParseInts(Tail(toks), Append(acc, p.n))

\* chompAllInts: panic is the slice tmpStrings[1:] of an empty tmpStrings
chompAllInts(rd) ==
    LET r == execCommand(rd)
        tmpStrings == matchInts(r.ret)
    IN  IF ~r.err.nil THEN [panic |-> FALSE, values |-> <<>>, err |-> r.err]
        ELSE IF tmpStrings = <<>>
             THEN [panic |-> TRUE, values |-> <<>>, err |-> NoErr]
             ELSE [panic |-> FALSE] @@ ParseInts(Tail(tmpStrings), <<>>)

\* chompAllStrings: a successful response holds "OK", so tmpStrings is not empty
chompAllStrings(rd) ==
    LET r == execCommand(rd)
        tmpStrings == matchStrings(r.ret)
    IN  IF ~r.err.nil THEN [panic |-> FALSE, values |-> <<>>, err |-> r.err]
        ELSE IF tmpStrings = <<>>
             THEN [panic |-> TRUE, values |-> <<>>, err |-> NoErr]
             ELSE [panic |-> FALSE, values |-> Tail(tmpStrings), err |-> NoErr]

getWl(rd) == chompAllStrings(rd)

(***************************************************************************)
(* Numbers.  A float64 is [k, c]: "fin" with c hundredths, "huge" (finite, *)
(* beyond the range of int64, of sign c) or "nan".  The model's inputs     *)
(* are integers and quarters, which float64 holds exactly.                 *)
(***************************************************************************)
Fin(c) == [k |-> "fin", c |-> c]

Huge(sgn) == [k |-> "huge", c |-> sgn]

NaN == [k |-> "nan", c |-> 0]

\* the length of the longest run of digits at the head of s
RECURSIVE DigitRun(_)
DigitRun(s) ==
    IF Len(s) > 0 /\ Ch(s, 1) \in Digit THEN 1 + DigitRun(Rest(s)) ELSE 0

\* the length of a match of [-+]?\d*\.\d+ at the head of s, 0 for none
FloatAt(s) ==
    LET sg == IF Len(s) > 0 /\ Ch(s, 1) \in {"-", "+"} THEN 1 ELSE 0
        t  == SubSeq(s, sg + 1, Len(s))
        n  == DigitRun(t)
        u  == SubSeq(t, n + 1, Len(t))
        m  == IF Len(u) > 0 /\ Ch(u, 1) = "." THEN DigitRun(Rest(u)) ELSE 0
    IN  IF m > 0 THEN sg + n + 1 + m ELSE 0

\* matchFloat.FindString(v), for [-+]?\d*\.\d+|\d+: the leftmost match, the
\* first alternative preferred
RECURSIVE matchFloat(_)
matchFloat(v) ==
    IF Len(v) = 0 THEN ""
    ELSE IF FloatAt(v) > 0 THEN SubSeq(v, 1, FloatAt(v))
    ELSE IF DigitRun(v) > 0 THEN SubSeq(v, 1, DigitRun(v))
    ELSE matchFloat(Rest(v))

\* the first two decimals of a fraction, as hundredths
Hundredths(frac) ==
    Decimal(SubSeq(frac \o "00", 1, 2), 0)

\* strconv.ParseFloat(found, 64) of what matchFloat found: "" is a syntax error
ParseFloat(found) ==
    IF found = "" THEN [ok |-> FALSE, f |-> Fin(0)]
    ELSE LET neg  == Ch(found, 1) = "-"
             body == IF Ch(found, 1) \in {"-", "+"} THEN Rest(found) ELSE found
             n    == DigitRun(body)
             int  == StripZeros(SubSeq(body, 1, n))
             frac == SubSeq(body, n + 2, Len(body))
             sgn  == IF neg THEN -1 ELSE 1
         IN  IF Len(int) > MaxInt64Digits
             THEN [ok |-> TRUE, f |-> Huge(sgn)]
             ELSE [ok |-> TRUE,
                   f |-> Fin(sgn * (100 * Decimal(int, 0) + Hundredths(frac)))]

\* runStuff, the loop over lineSplit[4:]: a field that fails to parse leaves 0
ParseTargets(stringVals) ==
    [n \in 1..Len(stringVals) |->
        LET p == ParseFloat(matchFloat(stringVals[n]))
        IN  IF p.ok THEN p.f ELSE Fin(0)]

Sign(n) == IF n > 0 THEN 1 ELSE IF n < 0 THEN -1 ELSE 0

Inf(sgn) == [k |-> "inf", c |-> sgn]

\* x * multiplier: of two finite values, in ten-thousandths ("prod").  A huge
\* value times a finite one is taken to stay beyond int64 (a multiplier below 1
\* may bring it back in range, where int() gives a value above 1000 as well).
Mul(xv, m) ==
    IF xv.k = "nan" \/ m.k = "nan" THEN NaN
    ELSE IF xv.k = "inf" \/ m.k = "inf"
         THEN IF xv.c = 0 \/ m.c = 0 THEN NaN ELSE Inf(Sign(xv.c) * Sign(m.c))
    ELSE IF xv.k = "huge" \/ m.k = "huge"
         THEN IF xv.c = 0 \/ m.c = 0 THEN [k |-> "prod", c |-> 0]
              ELSE Huge(Sign(xv.c) * Sign(m.c))
    ELSE [k |-> "prod", c |-> xv.c * m.c]

\* the float64 values that int() maps to a value the build chooses: Go leaves
\* the conversion of a value the type cannot represent to the implementation
Unrepresentable == {Huge(1), Huge(-1), Inf(1), Inf(-1), NaN}

\* values an out-of-range conversion may give, within the integers of the checker
IntSamples == {-2147483647, -1, 0, 1, 1000, 1001, 2147483647}

\* int(x * multiplier): truncation toward zero of the ten-thousandths; conv
\* gives the build's value where the product is out of range
ToInt(f, conv) ==
    IF f \in Unrepresentable THEN conv[f]
    ELSE IF f.c >= 0 THEN f.c \div 10000 ELSE -((-f.c) \div 10000)

min(a, b) == IF a < b THEN a ELSE b

max(a, b) == IF a > b THEN a ELSE b

LowPower == 0

HighPower == 1000

\* a clamp without the upper limit
minMaxNoCap(value) == max(value, LowPower)

minMax(value) == min(max(value, LowPower), HighPower)

\* strings.Join(intToString(a), " ")
RECURSIVE Join(_)
Join(a) ==
    IF a = <<>> THEN ""
    ELSE IF Len(a) = 1 THEN ToString(a[1])
    ELSE ToString(a[1]) \o " " \o Join(Tail(a))

\* setMany: the command text written to the device
setManyCommand(vals, m, conv) ==
    LET intVals == [n \in 1..Len(vals) |-> minMax(ToInt(Mul(vals[n], m), conv))]
    IN  "setWlsRelPower " \o Join(intVals)

\* float64(v) / multiplier, kept as the quotient
Quot(v, m) == [k |-> "quot", num |-> v, den |-> m]

\* getPower: the values chompAllInts read, each divided by the multiplier
getPower(rd, m) ==
    LET r == chompAllInts(rd)
    IN  [panic |-> r.panic,
         values |-> [n \in 1..Len(r.values) |-> Quot(r.values[n], m)],
         err |-> r.err]

(***************************************************************************)
(* Bounds of the model and the inputs drawn from them                      *)
(***************************************************************************)
\* data rows of the conditions file
MaxRows == 2

\* the latest due time of a row
MaxTime == 4

\* seconds a dial may take
MaxDelay == 2

\* the clock stops advancing here
Horizon == MaxTime + 2

Delays == 0..MaxDelay

\* the zero time.Time of "var lastTime time.Time": before every time of the model
ZeroTime == 0

\* column 0 of a row: a time the date parser reads, or text it cannot read
Timestamps == {ToString(t) : t \in 1..MaxTime} \cup {"soon"}

\* the columns after column 0: three reserved columns and two targets
GoodCols == <<"20.5", "60", "x", "50.0", "75">>

\* a row with one field too few to hold the reserved columns
ShortCols == <<"20.5">>

GoodWl == Chunk("OK 450 6500\r\n>")

GoodSet == Chunk("OK\r\n>")

\* what the surroundings of the process may do: the rows of the file, the
\* outcome and duration of a dial, the outcome of the priming read, the replies
\* of the device to getWl, setWlsRelPower and getAllRelPower, whether the
\* telegraf client can be made
FullEnv ==
    [ cols   |-> {GoodCols, ShortCols},
      rows   |-> MaxRows,
      delays |-> Delays,
      dialed |-> BOOLEAN,
      primed |-> BOOLEAN,
      wl     |-> {GoodWl, Chunk("ERR 5% \r\n>"), ReadErr},
      set    |-> {GoodSet, Chunk("ERR range\r\n>")},
      power  |-> {Chunk("OK 0 100 200\r\n>"), Chunk("OK\r\n>"),
                  Chunk("ERR\r\n>"), ReadErr},
      udp    |-> BOOLEAN ]

\* a second row of two targets
OtherCols == <<"21", "55", "y", "10", "0.5">>

\* surroundings in which the device and telegraf succeed, with one more row
SteadyEnv ==
    [ cols   |-> {GoodCols, OtherCols},
      rows   |-> MaxRows + 1,
      delays |-> Delays,
      dialed |-> {TRUE},
      primed |-> {TRUE},
      wl     |-> {GoodWl},
      set    |-> {GoodSet},
      power  |-> {Chunk("OK 0 100 200\r\n>")},
      udp    |-> {TRUE} ]

\* the length of the short response texts, and the characters they are made of
MaxText == 4

TextChars == {" ", "%", "O", "K", "1", "a"}

RECURSIVE Texts(_)
Texts(n) ==
    IF n = 0 THEN {""}
    ELSE Texts(n - 1) \cup {t \o c : t \in Texts(n - 1), c \in TextChars}

\* what conn.ReadString('>') may return: a read error, or any short text and
\* some longer ones, each ended by the prompt
Reads ==
    {ReadErr}
      \cup {Chunk(t \o ">") : t \in Texts(MaxText)}
      \cup { Chunk("getWl OK a b c \r\n>"),
             Chunk("getWl OK 450 6500\r\n>"),
             Chunk("getAllRelPower OK 100 200 300\r\n>"),
             Chunk("OK 1 99999999999999999999 4\r\n>"),
             Chunk(" ERR 100%\r\n>") }

\* surroundings in which the device may reply anything
WideEnv ==
    [ cols   |-> {GoodCols},
      rows   |-> MaxRows,
      delays |-> {0},
      dialed |-> BOOLEAN,
      primed |-> BOOLEAN,
      wl     |-> Reads,
      set    |-> Reads,
      power  |-> Reads,
      udp    |-> BOOLEAN ]

\* surroundings of one attempt with a device that may reply anything to getWl
AttemptEnv ==
    [ cols   |-> {GoodCols},
      rows   |-> MaxRows,
      delays |-> {0},
      dialed |-> BOOLEAN,
      primed |-> BOOLEAN,
      wl     |-> Reads,
      set    |-> {GoodSet, Chunk("ERR range\r\n>"), Chunk("ERR 5% \r\n>"),
                  ReadErr},
      power  |-> {ReadErr},
      udp    |-> BOOLEAN ]

\* the target fields of a row, and how many of them a row holds
MaxTargets == 2

TargetFields == {"-5.5", "0", "50.0", "75", "100.25", "99999999999999999999"}

RECURSIVE TargetRows(_)
TargetRows(n) ==
    IF n = 0 THEN {<<>>}
    ELSE TargetRows(n - 1)
           \cup {Append(r, f) : r \in {q \in TargetRows(n - 1) : Len(q) = n - 1},
                                f \in TargetFields}

\* surroundings of one attempt that succeeds, the device holding 1 to 3 channels
CodecEnv ==
    [ cols   |-> {<<"20.5", "60", "x">> \o r : r \in TargetRows(MaxTargets)},
      rows   |-> MaxRows,
      delays |-> {0},
      dialed |-> {TRUE},
      primed |-> {TRUE},
      wl     |-> {Chunk("OK 450\r\n>"), GoodWl, Chunk("OK 450 660 6500\r\n>")},
      set    |-> {GoodSet},
      power  |-> {ReadErr},
      udp    |-> {TRUE} ]

\* parseDateTime: the date parser is a library; a timestamp of the model is the
\* decimal number of its second
parseDateTime(tString) ==
    IF Len(tString) > 0 /\ AllDigits(tString)
    THEN [ok |-> TRUE, t |-> Decimal(tString, 0)]
    ELSE [ok |-> FALSE, t |-> ZeroTime]

\* the time of the last row that has one
RECURSIVE LastTimeOf(_)
LastTimeOf(rows) ==
    IF rows = <<>> THEN ZeroTime
    ELSE LET p == parseDateTime(rows[Len(rows)][1])
         IN  IF p.ok THEN p.t ELSE LastTimeOf(SubSeq(rows, 1, Len(rows) - 1))

\* the lines the scanner may read next: the rows of a file are in ascending
\* order of time
NextLines(env) ==
    { line \in { <<ts>> \o cols : ts \in Timestamps, cols \in env.cols } :
        /\ Len(file) < env.rows
        /\ parseDateTime(line[1]).ok
              => parseDateTime(line[1]).t >= LastTimeOf(file) }

\* a line of errLog: "running firstrun line" (186), "sleeping for <secs>s"
\* (194, with the time slept until), "ran <time> <values>" (307)
LogLine(line, t, secs, vals) ==
    [line |-> line, time |-> t, secs |-> secs, values |-> vals]

(***************************************************************************)
(* init and main                                                           *)
(***************************************************************************)
\* init, lines 440-443: both flags set leave nothing to do
InitCheck ==
    /\ pc = "init"
    /\ pc' = IF noMetrics /\ dummy THEN "exited" ELSE "main"
    /\ UNCHANGED <<cfgVars, caller, now, runVars, rsVars, devVars, obsVars>>

\* main, line 454
PollMode == ~noMetrics /\ (conditionsPath = "" \/ dummy)

\* main, line 495
ScheduleMode == conditionsPath # "" /\ ~dummy

\* main, lines 454 and 495: the poll loop, which never returns, else the
\* schedule runner, else nothing
Main ==
    /\ pc = "main"
    /\ pc' = IF PollMode THEN "runMetrics"
             ELSE IF ScheduleMode THEN "runConditions"
             ELSE "exited"
    /\ UNCHANGED <<cfgVars, caller, now, runVars, rsVars, devVars, obsVars>>

(***************************************************************************)
(* runConditions                                                           *)
(***************************************************************************)
\* lines 151-154: a file that cannot be opened is fatal
OpenFile ==
    /\ pc = "runConditions"
    /\ \E opened \in BOOLEAN : pc' = IF opened THEN "scan" ELSE "exited"
    /\ UNCHANGED <<cfgVars, caller, now, runVars, rsVars, devVars, obsVars>>

\* lines 161-166: the first line is the header
ScanHeader ==
    /\ pc = "scan"
    /\ idx = 0
    /\ idx' = idx + 1
    /\ UNCHANGED <<cfgVars, pc, caller, now, file, lastTime, lastLineSplit,
                   firstRun, theTime, lineSplit, i, rsVars, devVars, obsVars>>

\* an end of the file that executes the remembered row
ScanEndApplies ==
    /\ pc = "scan"
    /\ pc' = IF firstRun /\ lastLineSplit # <<>> THEN "loop" ELSE "exited"
    /\ caller' = IF firstRun /\ lastLineSplit # <<>> THEN "firstrun" ELSE caller
    /\ UNCHANGED <<cfgVars, now, runVars, rsVars, devVars, obsVars>>

\* line 161: no line is left, runConditions and main return
ScanEnd ==
    /\ pc = "scan"
    /\ pc' = "exited"
    /\ UNCHANGED <<cfgVars, caller, now, runVars, rsVars, devVars, obsVars>>

\* lines 168-174: a row whose timestamp does not parse is skipped
ScanBadTime(env) ==
    /\ pc = "scan"
    /\ idx # 0
    /\ \E line \in NextLines(env) :
        /\ ~parseDateTime(line[1]).ok
        /\ file' = Append(file, line)
        /\ lineSplit' = line
        /\ theTime' = parseDateTime(line[1]).t
    /\ UNCHANGED <<cfgVars, pc, caller, now, idx, lastTime, lastLineSplit,
                   firstRun, i, rsVars, devVars, obsVars>>

\* a comparison that also holds of equal times
NotAfter(t, u) == t <= u

\* line 178: theTime.Before(time.Now())
Before(t, u) == t < u

\* a scan that, after the first pass, executes a row it reads late
ScanPastRunsLate(env) ==
    /\ pc = "scan"
    /\ idx # 0
    /\ \E line \in NextLines(env) :
        /\ parseDateTime(line[1]).ok
        /\ Before(parseDateTime(line[1]).t, now)
        /\ file' = Append(file, line)
        /\ lineSplit' = line
        /\ theTime' = parseDateTime(line[1]).t
        /\ lastLineSplit' = line
        /\ lastTime' = parseDateTime(line[1]).t
    /\ pc' = IF firstRun THEN "scan" ELSE "sleep"
    /\ UNCHANGED <<cfgVars, caller, now, idx, firstRun, i, rsVars, devVars,
                   obsVars>>

\* lines 178-182: a row before the current time is remembered and skipped
ScanPast(env) ==
    /\ pc = "scan"
    /\ idx # 0
    /\ \E line \in NextLines(env) :
        /\ parseDateTime(line[1]).ok
        /\ Before(parseDateTime(line[1]).t, now)
        /\ file' = Append(file, line)
        /\ lineSplit' = line
        /\ theTime' = parseDateTime(line[1]).t
        /\ lastLineSplit' = line
        /\ lastTime' = parseDateTime(line[1]).t
    /\ UNCHANGED <<cfgVars, pc, caller, now, idx, firstRun, i, rsVars, devVars,
                   obsVars>>

\* lines 184-186 and 194: a row not before the current time; on the first one
\* the retry loop of the remembered row is entered, on the others the sleep
ScanFuture(env) ==
    /\ pc = "scan"
    /\ idx # 0
    /\ \E line \in NextLines(env) :
        /\ parseDateTime(line[1]).ok
        /\ ~Before(parseDateTime(line[1]).t, now)
        /\ file' = Append(file, line)
        /\ lineSplit' = line
        /\ theTime' = parseDateTime(line[1]).t
    /\ IF firstRun
       THEN /\ firstRun' = FALSE
            /\ errLog' = Append(errLog, LogLine("firstrun", ZeroTime, 0, <<>>))
            /\ i' = 0
            /\ caller' = "firstrun"
            /\ pc' = "loop"
       ELSE /\ pc' = "sleep"
            /\ UNCHANGED <<firstRun, errLog, i, caller>>
    /\ UNCHANGED <<cfgVars, now, idx, lastTime, lastLineSplit, rsVars, devVars,
                   start, warned, closedNil, openConns, measurement>>

\* a sleep that returns at once
NoSleep ==
    /\ pc = "sleep"
    /\ errLog' = Append(errLog,
                        LogLine("sleeping", theTime, theTime - now, <<>>))
    /\ i' = 0
    /\ caller' = "run"
    /\ pc' = "loop"
    /\ UNCHANGED <<cfgVars, now, file, idx, lastTime, lastLineSplit, firstRun,
                   theTime, lineSplit, rsVars, devVars, start, warned, closedNil,
                   openConns, measurement>>

\* lines 194-195: the log line, the sleep, and the entry of the retry loop
Sleep ==
    /\ pc = "sleep"
    /\ errLog' = Append(errLog,
                        LogLine("sleeping", theTime, theTime - now, <<>>))
    /\ now' = max(now, theTime)
    /\ i' = 0
    /\ caller' = "run"
    /\ pc' = "loop"
    /\ UNCHANGED <<cfgVars, file, idx, lastTime, lastLineSplit, firstRun, theTime,
                   lineSplit, rsVars, devVars, start, warned, closedNil,
                   openConns, measurement>>

\* the attempts of one retry loop, "for i := 0; i < 10; i++"
Attempts == 10

\* what follows a retry loop: the sleep after line 192, the next row after 204
AfterLoop ==
    IF caller = "firstrun"
    THEN pc' = "sleep" /\ idx' = idx
    ELSE pc' = "scan" /\ idx' = idx + 1

\* a retry loop of one more attempt
LoopOnceMore ==
    /\ pc = "loop"
    /\ IF i <= Attempts
       THEN pc' = "runStuff" /\ idx' = idx
       ELSE AfterLoop
    /\ UNCHANGED <<cfgVars, caller, now, file, lastTime, lastLineSplit, firstRun,
                   theTime, lineSplit, i, rsVars, devVars, obsVars>>

\* lines 187-188 and 198-199: the loop condition and the call of runStuff
Loop ==
    /\ pc = "loop"
    /\ IF i < Attempts
       THEN pc' = "runStuff" /\ idx' = idx
       ELSE AfterLoop
    /\ UNCHANGED <<cfgVars, caller, now, file, lastTime, lastLineSplit, firstRun,
                   theTime, lineSplit, i, rsVars, devVars, obsVars>>

\* the locals of runStuff and runMetrics, and what they showed, before a call
NoFrame ==
    /\ lightValues = <<>>
    /\ conn = "nil"
    /\ wavelengths = <<>>
    /\ x = 0
    /\ err = NoErr
    /\ ret = FALSE
    /\ lightPower = <<>>
    /\ datad = ReadErr
    /\ command = ""
    /\ warned = FALSE
    /\ measurement = <<>>

\* the frame of runStuff or runMetrics goes out of scope
DropFrame ==
    /\ lightValues' = <<>>
    /\ conn' = "nil"
    /\ wavelengths' = <<>>
    /\ x' = 0
    /\ err' = NoErr
    /\ ret' = FALSE
    /\ lightPower' = <<>>
    /\ datad' = ReadErr
    /\ command' = ""
    /\ warned' = FALSE
    /\ measurement' = <<>>

\* lines 188-190 and 199-201: true breaks the loop, false takes the next attempt
Returned ==
    /\ pc = "returned"
    /\ IF ret
       THEN AfterLoop /\ i' = i
       ELSE pc' = "loop" /\ i' = i + 1 /\ idx' = idx
    /\ DropFrame
    /\ UNCHANGED <<cfgVars, caller, now, file, lastTime, lastLineSplit, firstRun,
                   theTime, lineSplit, start, errLog, closedNil, openConns>>

(***************************************************************************)
(* runStuff                                                                *)
(***************************************************************************)
\* the arguments of the call: line 188 passes the remembered row, line 199 the
\* current one
argTime == IF caller = "firstrun" THEN lastTime ELSE theTime

argLine == IF caller = "firstrun" THEN lastLineSplit ELSE lineSplit

\* a blocking step takes d seconds
Elapse(d) == now + d <= Horizon /\ now' = now + d

\* the return of runStuff: the deferred Close of line 283 runs once a connection
\* was opened
Return(opened, result) ==
    /\ conn' = IF opened THEN "closed" ELSE "nil"
    /\ openConns' = IF opened THEN openConns - 1 ELSE openConns
    /\ ret' = result
    /\ pc' = "returned"

\* lines 262-277: lineSplit[4:] panics on a slice of fewer than 4 fields
RsParse ==
    /\ pc = "runStuff"
    /\ IF Len(argLine) < 4
       THEN pc' = "crashed" /\ UNCHANGED lightValues
       ELSE /\ lightValues' = ParseTargets(SubSeq(argLine, 5, Len(argLine)))
            /\ pc' = "dial"
    /\ UNCHANGED <<cfgVars, caller, now, runVars, conn, wavelengths, x, err, ret,
                   lightPower, devVars, obsVars>>

\* lines 278-283: telnet.DialTimeout, and the deferred Close once it succeeded
RsDial(env) ==
    /\ pc = "dial"
    /\ \E d \in env.delays, dialed \in env.dialed :
        /\ Elapse(d)
        /\ IF dialed
           THEN /\ conn' = "open"
                /\ openConns' = openConns + 1
                /\ err' = NoErr
                /\ pc' = "prime"
                /\ UNCHANGED ret
           ELSE /\ err' = Error("dial")
                /\ Return(FALSE, FALSE)
    /\ UNCHANGED <<cfgVars, caller, runVars, lightValues, wavelengths, x,
                   lightPower, devVars, start, errLog, warned, closedNil,
                   measurement>>

\* lines 284-288: conn.SkipUntil("\n>")
RsPrime(env) ==
    /\ pc = "prime"
    /\ \E primed \in env.primed :
        IF primed
        THEN /\ pc' = "getWl"
             /\ UNCHANGED <<conn, openConns, err, ret>>
        ELSE /\ err' = Error("prime")
             /\ Return(TRUE, FALSE)
    /\ UNCHANGED <<cfgVars, caller, now, runVars, lightValues, wavelengths, x,
                   lightPower, devVars, start, errLog, warned, closedNil,
                   measurement>>

\* lines 291-295
RsGetWl(env) ==
    /\ pc = "getWl"
    /\ \E rd \in env.wl :
        /\ command' = "getWl"
        /\ datad' = rd
        /\ err' = getWl(rd).err
        /\ IF getWl(rd).err.nil
           THEN /\ wavelengths' = getWl(rd).values
                /\ pc' = "setMany"
                /\ UNCHANGED <<conn, openConns, ret>>
           ELSE /\ Return(TRUE, FALSE)
                /\ UNCHANGED wavelengths
    /\ UNCHANGED <<cfgVars, caller, now, runVars, lightValues, x, lightPower,
                   start, errLog, warned, closedNil, measurement>>

\* the values int() may give to the out-of-range products of one command
Convs(vals, m) ==
    LET present == {Mul(vals[n], m) : n \in 1..Len(vals)} \cap Unrepresentable
    IN  { [f \in Unrepresentable |-> IF f \in present THEN g[f] ELSE 0] :
            g \in [present -> IntSamples] }

\* lines 296-307: the shorter length, the warning, setMany and the "ran" line
RsSetMany(env) ==
    /\ pc = "setMany"
    /\ LET minLength == min(Len(wavelengths), Len(lightValues))
           vals == SubSeq(lightValues, 1, minLength)
       IN  /\ warned' = (Len(lightValues) # minLength)
           /\ \E rd \in env.set, conv \in Convs(vals, multiplier) :
                /\ command' = setManyCommand(vals, multiplier, conv)
                /\ datad' = rd
                /\ err' = execCommand(rd).err
                /\ IF execCommand(rd).err.nil
                   THEN /\ errLog' = Append(errLog,
                                          LogLine("ran", argTime, 0, lightValues))
                        /\ x' = 0
                        /\ pc' = "writeMetrics"
                        /\ UNCHANGED <<conn, openConns, ret>>
                   ELSE /\ Return(TRUE, FALSE)
                        /\ UNCHANGED <<errLog, x>>
    /\ UNCHANGED <<cfgVars, caller, now, runVars, lightValues, wavelengths,
                   lightPower, start, closedNil, measurement>>

\* strconv.ParseInt(wavelengths[i], 10, 64) of a word: a word with a letter or an
\* underscore is a syntax error
LabelInt(w) == IF AllDigits(w) THEN ParseInt(w) ELSE [ok |-> FALSE, n |-> 0]

\* the label that is written with a k
Kelvin == 6500

\* writeMetrics, lines 338-349: one field for each value whose label is a number
RECURSIVE Fields(_, _)
Fields(wl, lv) ==
    IF lv = <<>> THEN <<>>
    ELSE LET p == LabelInt(Head(wl))
             unit == IF p.n = Kelvin THEN "k" ELSE "nm"
         IN  IF p.ok
             THEN <<[name |-> ToString(p.n) \o unit, value |-> Head(lv)]>>
                      \o Fields(Tail(wl), Tail(lv))
             ELSE Fields(Tail(wl), Tail(lv))

\* writeMetrics, lines 320-363: nil without metrics; the client that cannot be
\* made and the differing lengths are errors
writeMetrics(wl, lv, udp) ==
    IF noMetrics THEN [err |-> NoErr, written |-> FALSE]
    ELSE IF ~udp THEN [err |-> Error("udp"), written |-> FALSE]
    ELSE IF Len(wl) # Len(lv)
         THEN [err |-> Error("wavelengths and light values differ"),
               written |-> FALSE]
         ELSE [err |-> NoErr, written |-> TRUE]

\* the attempts of the telemetry loop, "for x := 0; x < 5; x++"
MetricsAttempts == 5

\* a telemetry loop that reports its exhaustion as a failure of the attempt
RsWriteMetricsFails(env) ==
    /\ pc = "writeMetrics"
    /\ IF x < MetricsAttempts
       THEN \E udp \in env.udp :
              LET w == writeMetrics(wavelengths, lightValues, udp)
              IN  IF w.err.nil
                  THEN /\ measurement' =
                             IF w.written THEN Fields(wavelengths, lightValues)
                             ELSE measurement
                       /\ Return(TRUE, TRUE)
                       /\ UNCHANGED x
                  ELSE /\ x' = x + 1
                       /\ UNCHANGED <<pc, conn, openConns, ret, measurement>>
       ELSE /\ Return(TRUE, FALSE)
            /\ UNCHANGED <<x, measurement>>
    /\ UNCHANGED <<cfgVars, caller, now, runVars, lightValues, wavelengths, err,
                   lightPower, devVars, start, errLog, warned, closedNil>>

\* lines 309-317: the telemetry loop and the return of true
RsWriteMetrics(env) ==
    /\ pc = "writeMetrics"
    /\ IF x < MetricsAttempts
       THEN \E udp \in env.udp :
              LET w == writeMetrics(wavelengths, lightValues, udp)
              IN  IF w.err.nil
                  THEN /\ measurement' =
                             IF w.written THEN Fields(wavelengths, lightValues)
                             ELSE measurement
                       /\ Return(TRUE, TRUE)
                       /\ UNCHANGED x
                  ELSE /\ x' = x + 1
                       /\ UNCHANGED <<pc, conn, openConns, ret, measurement>>
       ELSE /\ Return(TRUE, TRUE)
            /\ UNCHANGED <<x, measurement>>
    /\ UNCHANGED <<cfgVars, caller, now, runVars, lightValues, wavelengths, err,
                   lightPower, devVars, start, errLog, warned, closedNil>>

(***************************************************************************)
(* The poll loop: runMetrics, lines 456-482, and the ticker, lines 484-492 *)
(***************************************************************************)
\* the return of runMetrics: the deferred Close of line 461
PollReturn ==
    /\ conn' = "closed"
    /\ openConns' = openConns - 1
    /\ pc' = "tick"

\* lines 457-461: a failed dial is logged and runMetrics goes on with a nil conn
PollDial(env) ==
    /\ pc = "runMetrics"
    /\ \E dialed \in env.dialed :
        IF dialed
        THEN /\ conn' = "open"
             /\ openConns' = openConns + 1
             /\ err' = NoErr
        ELSE /\ conn' = "nil"
             /\ err' = Error("dial")
             /\ UNCHANGED openConns
    /\ pc' = "pollPrime"
    /\ UNCHANGED <<cfgVars, caller, now, runVars, lightValues, wavelengths, x,
                   ret, lightPower, devVars, start, errLog, warned, closedNil,
                   measurement>>

\* lines 461-466: "defer conn.Close()" and conn.SkipUntil(">"); with the nil
\* conn of a failed dial, line 461 applies Close to a connection that was never
\* opened and the nil dereference panics, which ends the process
PollPrime(env) ==
    /\ pc = "pollPrime"
    /\ IF conn = "nil"
       THEN /\ closedNil' = TRUE
            /\ pc' = "crashed"
            /\ UNCHANGED <<conn, openConns, err>>
       ELSE \E primed \in env.primed :
              IF primed
              THEN /\ pc' = "getPower"
                   /\ UNCHANGED <<conn, openConns, err, closedNil>>
              ELSE /\ err' = Error("prime")
                   /\ PollReturn
                   /\ UNCHANGED closedNil
    /\ UNCHANGED <<cfgVars, caller, now, runVars, lightValues, wavelengths, x,
                   ret, lightPower, devVars, start, errLog, warned, measurement>>

\* lines 468-472: a panic of chompAllInts ends the process, the deferred Close
\* running first
PollGetPower(env) ==
    /\ pc = "getPower"
    /\ \E rd \in env.power :
        LET r == getPower(rd, multiplier)
        IN  /\ command' = "getAllRelPower"
            /\ datad' = rd
            /\ err' = r.err
            /\ lightPower' = r.values
            /\ IF r.panic
               THEN /\ conn' = "closed"
                    /\ openConns' = openConns - 1
                    /\ pc' = "crashed"
               ELSE IF r.err.nil
                    THEN /\ pc' = "pollGetWl"
                         /\ UNCHANGED <<conn, openConns>>
                    ELSE PollReturn
    /\ UNCHANGED <<cfgVars, caller, now, runVars, lightValues, wavelengths, x,
                   ret, start, errLog, warned, closedNil, measurement>>

\* lines 473-477; wavelengths holds lightWavelengths
PollGetWl(env) ==
    /\ pc = "pollGetWl"
    /\ \E rd \in env.wl :
        /\ command' = "getWl"
        /\ datad' = rd
        /\ err' = getWl(rd).err
        /\ wavelengths' = getWl(rd).values
        /\ IF getWl(rd).err.nil
           THEN /\ pc' = "pollWrite"
                /\ UNCHANGED <<conn, openConns>>
           ELSE PollReturn
    /\ UNCHANGED <<cfgVars, caller, now, runVars, lightValues, x, ret,
                   lightPower, start, errLog, warned, closedNil, measurement>>

\* lines 478-482: one writeMetrics whose error is dropped, the two prints, the
\* return
PollWrite(env) ==
    /\ pc = "pollWrite"
    /\ \E udp \in env.udp :
        LET w == writeMetrics(wavelengths, lightPower, udp)
        IN  measurement' =
                IF w.written THEN Fields(wavelengths, lightPower) ELSE measurement
    /\ PollReturn
    /\ UNCHANGED <<cfgVars, caller, now, runVars, lightValues, wavelengths, x,
                   err, ret, lightPower, devVars, start, errLog, warned,
                   closedNil>>

\* lines 486-491: the ticker fires and the goroutine calls runMetrics again
Tick ==
    /\ pc = "tick"
    /\ pc' = "runMetrics"
    /\ DropFrame
    /\ UNCHANGED <<cfgVars, caller, now, runVars, start, errLog, closedNil,
                   openConns>>

(***************************************************************************)
(* The process                                                             *)
(***************************************************************************)
\* the locals of runConditions before it runs, and nothing observed yet
Locals ==
    /\ caller = "none"
    /\ file = <<>>
    /\ idx = 0
    /\ lastTime = ZeroTime
    /\ lastLineSplit = <<>>
    /\ firstRun = TRUE
    /\ theTime = ZeroTime
    /\ lineSplit = <<>>
    /\ i = 0
    /\ NoFrame
    /\ errLog = <<>>
    /\ closedNil = FALSE
    /\ openConns = 0

\* the multiplier flag's default, 10.0, in hundredths
DefaultMultiplier == Fin(1000)

\* the state when init has parsed flags and environment, at any start time
Init ==
    /\ noMetrics \in BOOLEAN
    /\ dummy \in BOOLEAN
    /\ conditionsPath \in {"", "conditions.csv"}
    /\ multiplier = DefaultMultiplier
    /\ pc = "init"
    /\ now \in 1..(MaxTime + 1)
    /\ start = now
    /\ Locals

Next ==
    \/ InitCheck
    \/ Main
    \/ OpenFile
    \/ ScanHeader
    \/ ScanEnd
    \/ ScanBadTime(FullEnv)
    \/ ScanPast(FullEnv)
    \/ ScanFuture(FullEnv)
    \/ Sleep
    \/ Loop
    \/ Returned
    \/ RsParse
    \/ RsDial(FullEnv)
    \/ RsPrime(FullEnv)
    \/ RsGetWl(FullEnv)
    \/ RsSetMany(FullEnv)
    \/ RsWriteMetrics(FullEnv)
    \/ PollDial(FullEnv)
    \/ PollPrime(FullEnv)
    \/ PollGetPower(FullEnv)
    \/ PollGetWl(FullEnv)
    \/ PollWrite(FullEnv)
    \/ Tick

Spec == Init /\ [][Next]_vars

\* the schedule runner with a device and a telegraf that succeed
InitSteady ==
    /\ noMetrics = FALSE
    /\ dummy = FALSE
    /\ conditionsPath = "conditions.csv"
    /\ multiplier = DefaultMultiplier
    /\ pc = "init"
    /\ now \in 1..(MaxTime + 1)
    /\ start = now
    /\ Locals

NextSteady ==
    \/ InitCheck
    \/ Main
    \/ OpenFile
    \/ ScanHeader
    \/ ScanEnd
    \/ ScanBadTime(SteadyEnv)
    \/ ScanPast(SteadyEnv)
    \/ ScanFuture(SteadyEnv)
    \/ Sleep
    \/ Loop
    \/ Returned
    \/ RsParse
    \/ RsDial(SteadyEnv)
    \/ RsPrime(SteadyEnv)
    \/ RsGetWl(SteadyEnv)
    \/ RsSetMany(SteadyEnv)
    \/ RsWriteMetrics(SteadyEnv)

SpecSteady == InitSteady /\ [][NextSteady]_vars

\* one pass of the loop over the lines of the file, from scanner.Scan to the
\* end of the file, a continue, the catch-up or the sleep
ScanStep ==
    \/ ScanEnd
    \/ ScanHeader
    \/ ScanBadTime(SteadyEnv)
    \/ ScanPast(SteadyEnv)
    \/ ScanFuture(SteadyEnv)

\* the schedule runner whose scan does not stall: scanner.Scan returns, with
\* the next line of the file or at its end
SpecRunner == InitSteady /\ [][NextSteady]_vars /\ WF_vars(ScanStep)

\* the poll loop with a device that may reply anything
InitPoll ==
    /\ noMetrics = FALSE
    /\ dummy \in BOOLEAN
    /\ conditionsPath = IF dummy THEN "conditions.csv" ELSE ""
    /\ multiplier = DefaultMultiplier
    /\ pc = "init"
    /\ now = 1
    /\ start = now
    /\ Locals

NextPoll ==
    \/ InitCheck
    \/ Main
    \/ PollDial(WideEnv)
    \/ PollPrime(WideEnv)
    \/ PollGetPower(WideEnv)
    \/ PollGetWl(WideEnv)
    \/ PollWrite(WideEnv)
    \/ Tick

SpecPoll == InitPoll /\ [][NextPoll]_vars

\* runConditions at line 188, in the first attempt of the catch-up of a row
\* due at 1 that it read at 2 before a row due at 2
AtCatchUp(cols, m) ==
    /\ noMetrics = FALSE
    /\ dummy = FALSE
    /\ conditionsPath = "conditions.csv"
    /\ multiplier = m
    /\ pc = "runStuff"
    /\ caller = "firstrun"
    /\ now = 2
    /\ start = 2
    /\ file = << <<"1">> \o cols, <<"2">> \o GoodCols >>
    /\ idx = 1
    /\ lastTime = 1
    /\ lastLineSplit = <<"1">> \o cols
    /\ firstRun = FALSE
    /\ theTime = 2
    /\ lineSplit = <<"2">> \o GoodCols
    /\ i = 0
    /\ NoFrame
    /\ errLog = <<LogLine("firstrun", ZeroTime, 0, <<>>)>>
    /\ closedNil = FALSE
    /\ openConns = 0

\* one attempt of runStuff with a device that may reply anything
InitAttempt == AtCatchUp(GoodCols, DefaultMultiplier)

NextAttempt ==
    \/ RsParse
    \/ RsDial(AttemptEnv)
    \/ RsPrime(AttemptEnv)
    \/ RsGetWl(AttemptEnv)
    \/ RsSetMany(AttemptEnv)
    \/ RsWriteMetrics(AttemptEnv)

SpecAttempt == InitAttempt /\ [][NextAttempt]_vars

\* the values the multiplier flag may hold: 10, -10, 0, 0.5, and what
\* strconv.ParseFloat reads of "1e30", "Inf" and "NaN"
Multipliers == {Fin(1000), Fin(-1000), Fin(0), Fin(50), Huge(1), Inf(1), NaN}

\* one attempt of runStuff that succeeds, of any row under any multiplier
InitCodec == \E cols \in CodecEnv.cols, m \in Multipliers : AtCatchUp(cols, m)

NextCodec ==
    \/ RsParse
    \/ RsDial(CodecEnv)
    \/ RsPrime(CodecEnv)
    \/ RsGetWl(CodecEnv)
    \/ RsSetMany(CodecEnv)
    \/ RsWriteMetrics(CodecEnv)

SpecCodec == InitCodec /\ [][NextCodec]_vars

(***************************************************************************)
(* Properties                                                              *)
(***************************************************************************)
\* the time and the log line of the execution of the k-th row of the file
RowTime(k) == parseDateTime(file[k][1]).t

RanRow(k) ==
    LogLine("ran", RowTime(k), 0,
            ParseTargets(SubSeq(file[k], 5, Len(file[k]))))

SleptUntil(e, k) == e.line = "sleeping" /\ e.time = RowTime(k)

\* the runner has returned from a file of three rows T1 < T2 < T3 that it
\* started strictly between T1 and T2
ThreeRowsDone ==
    /\ pc = "exited"
    /\ Len(file) = 3
    /\ \A k \in 1..3 : parseDateTime(file[k][1]).ok
    /\ RowTime(1) < start /\ start < RowTime(2) /\ RowTime(2) < RowTime(3)

\* the log of catch-up, T2 and T3
FullLog ==
    /\ Len(errLog) = 6
    /\ errLog[1].line = "firstrun"
    /\ errLog[2] = RanRow(1)
    /\ SleptUntil(errLog[3], 2)
    /\ errLog[4] = RanRow(2)
    /\ SleptUntil(errLog[5], 3)
    /\ errLog[6] = RanRow(3)

\* the log of catch-up and T2 alone
ShortLog ==
    /\ Len(errLog) = 4
    /\ errLog[1].line = "firstrun"
    /\ errLog[2] = RanRow(1)
    /\ SleptUntil(errLog[3], 2)
    /\ errLog[4] = RanRow(2)

\* C1 as stated: started strictly between T1 and T2 of a file T1 < T2 < T3, with
\* every execution succeeding, the runner executes T1 at once, sleeps until T2,
\* executes T2, sleeps until T3 and executes T3, each once and nothing before
\* the catch-up.
C1_AsStated == ThreeRowsDone => FullLog

\* C1, amended: in that case the runner executes T1 at once, sleeps until T2 and
\* executes T2; it then sleeps until T3 and executes T3 when the clock has not
\* passed T3 by then, and otherwise returns with T3 never executed.
C1_CatchUpThenSchedule ==
    ThreeRowsDone =>
        \/ FullLog /\ errLog[5].secs >= 0
        \/ ShortLog /\ now > RowTime(3)

\* C1: the three entries were executed in order, the rows differing
C1_Witness ==
    /\ ThreeRowsDone
    /\ FullLog
    /\ errLog[2].values # errLog[4].values
    /\ now = RowTime(3)

\* C2: when the first future entry is reached with no past-due entry
\* remembered, the runner performs no catch-up execution and does not abort.
C2_NoCatchUpWithoutPastDue ==
    (caller = "firstrun" /\ lastLineSplit = <<>>) =>
        /\ pc # "crashed"
        /\ openConns = 0
        /\ command = ""

\* C3: runStuff is attempted between 1 and 10 times for an entry; no attempt
\* follows the first that returns true; after ten that return false the runner
\* goes on, to the sleep after a catch-up and to the next row after a run.
C3_AtMostTenAttempts ==
    /\ [](pc \in {"runStuff", "dial", "prime", "getWl", "setMany",
                  "writeMetrics", "returned"} => i < 10)
    /\ [][ /\ (pc \in {"scan", "sleep"} /\ pc' = "loop") => i' = 0
           /\ (pc = "loop" /\ i < 10) => pc' = "runStuff"
           /\ (pc = "returned" /\ ret) => pc' \in {"sleep", "scan"}
           /\ (pc = "returned" /\ ~ret) => (pc' = "loop" /\ i' = i + 1)
           /\ (pc = "loop" /\ i = 10) =>
                 IF caller = "firstrun"
                 THEN pc' = "sleep" /\ idx' = idx
                 ELSE pc' = "scan" /\ idx' = idx + 1 /\ file' = file ]_vars

\* C3: ten attempts of a row have returned false
C3_Witness == pc = "loop" /\ i = 10 /\ caller = "run" /\ Len(file) = 2

\* C4: in poll mode no failed connect, read error or malformed response ends
\* the process.
C4_PollSurvives == PollMode => pc # "crashed"

\* C5: at most one connection is open, none is left open when runStuff or
\* runMetrics has returned or the process has ended, and Close is never called
\* on a connection that was not opened.
C5_Connections ==
    /\ openConns <= 1
    /\ pc \in {"init", "main", "runConditions", "scan", "loop", "sleep",
               "runStuff", "dial", "returned", "runMetrics", "tick", "exited",
               "crashed"} => openConns = 0
    /\ ~closedNil

\* the first two parts of C5
C5_Balanced ==
    /\ openConns <= 1
    /\ pc \in {"init", "main", "runConditions", "scan", "loop", "sleep",
               "runStuff", "dial", "returned", "runMetrics", "tick", "exited",
               "crashed"} => openConns = 0

\* C6: a response without "OK" gives an error whose message is the trimmed
\* response, whatever its text, and the attempt of runStuff returns false
\* with no further command and no telemetry.
C6_ErrorIsTrimmedResponse ==
    (pc = "returned" /\ datad.ok /\ ~matchOK(datad.text)) =>
        /\ err = Error(TrimSpace(datad.text))
        /\ ~ret
        /\ measurement = <<>>
        /\ command = "getWl" => Len(errLog) = 1

\* the second part of C6
C6_NothingAfterError ==
    (pc = "returned" /\ datad.ok /\ ~matchOK(datad.text)) =>
        /\ ~err.nil
        /\ ~ret
        /\ measurement = <<>>
        /\ command = "getWl" => Len(errLog) = 1

\* C7: of a response whose words are the echoed getWl, OK and the labels,
\* getWl returns exactly the labels.
C7_LabelsAfterEcho ==
    LET w == matchStrings(datad.text)
    IN  (pc = "setMany" /\ Len(w) >= 2 /\ w[1] = "getWl" /\ w[2] = "OK") =>
            wavelengths = SubSeq(w, 3, Len(w))

\* C8: of a response whose words are the echoed getAllRelPower, OK and n
\* integers, getPower returns the n quotients in order.
C8_EveryPowerLevel ==
    LET w == matchStrings(datad.text)
        r == matchInts(datad.text)
    IN  (/\ pc = "pollGetWl"
         /\ Len(w) >= 2 /\ w[1] = "getAllRelPower" /\ w[2] = "OK"
         /\ SubSeq(w, 3, Len(w)) = r) =>
            lightPower = [n \in 1..Len(r) |-> Quot(ParseInt(r[n]).n, multiplier)]

\* C9: a getAllRelPower response that holds OK and no well-formed integer
\* gives an error to runMetrics, which returns: no abort, no success.
C9_NoIntegerIsAnError ==
    LET r == matchInts(datad.text)
    IN  (/\ command = "getAllRelPower"
         /\ datad.ok /\ matchOK(datad.text)
         /\ \A n \in 1..Len(r) : ~ParseInt(r[n]).ok) =>
            pc = "tick" /\ ~err.nil

\* the words of s between single spaces
RECURSIVE SplitSpaces(_, _, _)
SplitSpaces(s, cur, acc) ==
    IF Len(s) = 0 THEN IF cur = "" THEN acc ELSE Append(acc, cur)
    ELSE IF Ch(s, 1) = " " THEN SplitSpaces(Rest(s), "", Append(acc, cur))
    ELSE SplitSpaces(Rest(s), cur \o Ch(s, 1), acc)

SignedInt(w) ==
    IF Ch(w, 1) = "-" THEN 0 - Decimal(Rest(w), 0) ELSE Decimal(w, 0)

\* the integer arguments of the setWlsRelPower command last written
CommandArgs ==
    IF Len(command) >= 15 /\ SubSeq(command, 1, 15) = "setWlsRelPower "
    THEN LET w == SplitSpaces(SubSeq(command, 16, Len(command)), "", <<>>)
         IN  [n \in 1..Len(w) |-> SignedInt(w[n])]
    ELSE <<>>

\* C10: every integer argument of a setWlsRelPower command lies in 0..1000.
C10_ArgumentsInRange ==
    \A n \in 1..Len(CommandArgs) : CommandArgs[n] >= 0 /\ CommandArgs[n] <= 1000

\* C10: a negative and a huge target were written as 0 and 1000
C10_Witness ==
    /\ pc = "returned"
    /\ lightValues = <<Fin(-550), Huge(1)>>
    /\ multiplier = Fin(1000)
    /\ CommandArgs = <<0, 1000>>

\* math.Round of a product in ten-thousandths: to the nearest integer, halves
\* away from zero
Round(c) ==
    IF c >= 0 THEN (c + 5000) \div 10000 ELSE 0 - ((5000 - c) \div 10000)

Clamp(n) == IF n < 0 THEN 0 ELSE IF n > 1000 THEN 1000 ELSE n

\* the values that setMany was given: lightValues[:minLength]
SentValues ==
    SubSeq(lightValues, 1, min(Len(wavelengths), Len(lightValues)))

\* a setWlsRelPower command has been written in this attempt
SetWritten ==
    /\ pc \in {"writeMetrics", "returned"}
    /\ Len(command) >= 15
    /\ SubSeq(command, 1, 15) = "setWlsRelPower "

\* C11: the command setMany writes holds, for each value in order, the product
\* with the multiplier rounded to the nearest integer and then clamped to
\* 0..1000.
C11_RoundsThenClamps ==
    SetWritten =>
        /\ Len(CommandArgs) = Len(SentValues)
        /\ \A n \in 1..Len(SentValues) :
              LET f == Mul(SentValues[n], multiplier)
              IN  f.k = "prod" => CommandArgs[n] = Clamp(Round(f.c))

\* what C11 says of [50.0, 75.0] under 10
C11_Example ==
    (SetWritten /\ SentValues = <<Fin(5000), Fin(7500)>>
                /\ multiplier = Fin(1000)) =>
        command = "setWlsRelPower 500 750"

\* int() of a product in ten-thousandths: truncation toward zero
Trunc(c) == IF c >= 0 THEN c \div 10000 ELSE 0 - ((0 - c) \div 10000)

\* the command carries the first min(#labels, #values) values in order
FirstValuesSent ==
    /\ Len(CommandArgs) = min(Len(wavelengths), Len(lightValues))
    /\ \A n \in 1..Len(CommandArgs) :
          LET f == Mul(lightValues[n], multiplier)
          IN  f.k = "prod" => CommandArgs[n] = Clamp(Trunc(f.c))

\* C12: when the device's labels and the row's targets differ in number, in
\* either direction, the command carries the first min(#labels, #values)
\* values in order and a warning is logged.
C12_TruncatesAndWarns ==
    (SetWritten /\ Len(wavelengths) # Len(lightValues)) =>
        FirstValuesSent /\ warned

\* what holds of C12: the values sent, and the warning when the row holds more
\* targets than the device has labels
C12_WarnsOfMoreValues ==
    SetWritten =>
        /\ FirstValuesSent
        /\ warned <=> Len(lightValues) > Len(wavelengths)

\* runStuff has called writeMetrics(wavelengths, lightValues): a call has
\* failed, or the attempt has returned true
RsForwarded ==
    \/ pc = "writeMetrics" /\ x > 0
    \/ pc = "returned" /\ ret

\* runMetrics has called writeMetrics(lightWavelengths, lightPower)
PollForwarded == pc = "tick" /\ command = "getWl" /\ err.nil

\* C13: the labels and the values that are forwarded to writeMetrics are of
\* equal length.
C13_EqualLengthsForwarded ==
    /\ RsForwarded => Len(wavelengths) = Len(lightValues)
    /\ PollForwarded => Len(wavelengths) = Len(lightPower)

\* C14: after the set command has succeeded, writeMetrics is called at most 5
\* times and no device command follows; runStuff then returns true, whether a
\* call succeeded or all 5 failed, and the true return ends the retry loop.
C14_TelemetryNeverFailsTheEntry ==
    /\ [](pc = "writeMetrics" => x <= 5)
    /\ [][ pc = "writeMetrics" =>
             /\ pc' \in {"writeMetrics", "returned"}
             /\ command' = command /\ datad' = datad /\ errLog' = errLog
             /\ pc' = "writeMetrics" => (x < 5 /\ x' = x + 1)
             /\ pc' = "returned" => (ret' /\ conn' = "closed") ]_vars
    /\ [][ (pc = "returned" /\ ret) => pc' \in {"sleep", "scan"} ]_vars

\* C14: an attempt has returned true after 5 failed calls of writeMetrics
C14_Witness ==
    /\ pc = "returned"
    /\ ret
    /\ x = 5
    /\ measurement = <<>>
    /\ Len(wavelengths) = Len(lightValues)

\* where the process is in the poll loop, and where in the schedule runner
PollPcs == {"runMetrics", "pollPrime", "getPower", "pollGetWl", "pollWrite",
            "tick"}

RunnerPcs == {"runConditions", "scan", "loop", "sleep", "runStuff", "dial",
              "prime", "getWl", "setMany", "writeMetrics", "returned"}

\* main has returned without entering either mode
RanNeither ==
    /\ pc = "exited"
    /\ caller = "none"
    /\ idx = 0
    /\ ~ScheduleMode

\* C15: every configuration that passes init runs exactly one of the poll loop
\* and the schedule runner.
C15_ExactlyOneMode ==
    /\ pc \in PollPcs => (PollMode /\ idx = 0 /\ file = <<>>)
    /\ pc \in RunnerPcs => (ScheduleMode /\ ~PollMode)
    /\ ~(noMetrics /\ dummy) => ~RanNeither

\* what holds of C15: never both modes
C15_NeverBoth ==
    /\ pc \in PollPcs => (PollMode /\ idx = 0 /\ file = <<>>)
    /\ pc \in RunnerPcs => (ScheduleMode /\ ~PollMode)

\* C16: no content of a row ends the runner: the process does not panic in
\* an execution of a row that was read from the file.
C16_RowsNeverAbort ==
    (pc = "crashed" /\ caller # "none") => argLine = <<>>

\* what holds of C16: a row whose timestamp does not parse is skipped with no
\* device command and the scan goes on; a target that does not parse is sent
\* as 0
C16_BadTimestampSkipped ==
    [][ (pc = "scan" /\ file' # file /\ ~parseDateTime(lineSplit'[1]).ok) =>
           /\ pc' = "scan"
           /\ command' = command /\ openConns' = openConns
           /\ lastLineSplit' = lastLineSplit /\ errLog' = errLog ]_vars

\* runConditions reads a row whose time parses and equals the current time
ReadsRowDueNow ==
    /\ pc = "scan"
    /\ file' # file
    /\ parseDateTime(lineSplit'[1]).ok
    /\ theTime' = now

ReadsLateRow ==
    /\ pc = "scan"
    /\ ~firstRun
    /\ file' # file
    /\ parseDateTime(lineSplit'[1]).ok
    /\ theTime' < now

\* C18: after the first future row, a row that is past when the loop reaches
\* it is skipped and never executed: nothing is run or logged for it then, the
\* catch-up is logged at most once and first, every execution follows the
\* catch-up line or the sleep for its own row, and only the sleep that follows
\* the catch-up can be of a row that is past.
C18_LateRowsNeverRun ==
    /\ [][ ReadsLateRow =>
              /\ pc' = "scan"
              /\ errLog' = errLog
              /\ command' = command /\ openConns' = openConns ]_vars
    /\ [](\A k \in 1..Len(errLog) :
            /\ errLog[k].line = "firstrun" => k = 1
            /\ errLog[k].line = "ran" =>
                  /\ k > 1
                  /\ \/ errLog[k - 1].line = "firstrun"
                     \/ /\ errLog[k - 1].line = "sleeping"
                        /\ errLog[k - 1].time = errLog[k].time
            /\ (errLog[k].line = "sleeping" /\ errLog[k].secs < 0) =>
                  (k <= 3 /\ errLog[1].line = "firstrun"))

\* C18: the second execution overran the third row, which was skipped
C18_Witness ==
    /\ ThreeRowsDone
    /\ ShortLog
    /\ now > RowTime(3)
    /\ lastLineSplit = file[3]
    /\ ~firstRun

\* C19: at every call of runStuff by runConditions, and throughout the
\* attempt, the current time is at or after the due time of the row executed.
C19_NeverBeforeDueTime ==
    pc \in {"runStuff", "dial", "prime", "getWl", "setMany", "writeMetrics",
            "returned"} => now >= argTime

\* C19: a retry of a row that was slept for starts at its due time
C19_Witness ==
    /\ pc = "runStuff"
    /\ caller = "run"
    /\ i = 1
    /\ start < theTime
    /\ now = theTime

\* C20: as long as no future row has been met the runner opens no connection,
\* writes no command and logs no execution, and a runner that meets no future
\* row returns when the rows are exhausted.
C20_AllPastDueDoesNothing ==
    /\ [](firstRun =>
            /\ pc \in {"init", "main", "runConditions", "scan", "exited"}
            /\ conn = "nil" /\ openConns = 0
            /\ command = "" /\ errLog = <<>>)
    /\ (pc = "scan") ~> (pc = "exited" \/ ~firstRun)

\* C20: the runner has returned from a file whose rows were all past
C20_Witness ==
    /\ pc = "exited"
    /\ firstRun
    /\ Len(file) = MaxRows + 1
    /\ \A k \in 1..Len(file) :
          parseDateTime(file[k][1]).ok /\ RowTime(k) < start
    /\ lastLineSplit = file[Len(file)]
    /\ openConns = 0
    /\ errLog = <<>>

=============================================================================
